---- MODULE Spec2Model ----
(***************************************************************************)
(* protoc-gen-twirp_ts: the model builder of generator.go (generate and    *)
(* its helpers) and the field/type helpers of the template file.           *)
(*                                                                         *)
(* Go strings are sequences of one-character strings, so that prefixing,   *)
(* splitting and joining are computed as the code computes them.           *)
(***************************************************************************)
EXTENDS Integers, Sequences, FiniteSets, TLC

\* arg, ret: the argument and the result of one call of a helper or of the
\* generated class.
VARIABLES arg, ret

\* The pass of generate over one request.
VARIABLES
    req,          \* req.GetProtoFile(): the file descriptors, in order
    pc,           \* the position of generate
    fi,           \* index of the file of the outer loop (line 35)
    mi,           \* index of the message (line 66)
    fdi,          \* index of the field (line 109)
    si,           \* index of the service (line 132)
    mti,          \* index of the method (line 142)
    curMsg,       \* v, the messageValues being built (line 75)
    curSvc,       \* v, the serviceValues being built (line 135)
    resolver,     \* the dependencyResolver
    pfiles,       \* the protoFile values, one per file started
    outputFiles,  \* map from tsImportPath to the protoFiles of that path
    todo,         \* keys of outputFiles the range of line 174 has yet to visit
    res,          \* res.File
    logs          \* what log.Printf has written

genVars == <<req, pc, fi, mi, fdi, si, mti, curMsg, curSvc, resolver, pfiles,
             outputFiles, todo, res, logs>>

vars == <<arg, ret, req, pc, fi, mi, fdi, si, mti, curMsg, curSvc, resolver, pfiles,
          outputFiles, todo, res, logs>>

\* ------------------------------------------------------------------ bounds
\* Most fields of a message whose generated class is exercised.
MaxMsgFields == 2

\* Most files of a request, and most fields of the message under study.
MaxFiles == 2
MaxFields == 2

\* Longest package, in dot-separated segments, of the type names fed to the
\* field type mapper.
MaxPkgSegs == 2

\* ----------------------------------------------------------------- strings
Dot == "."
Underscore == "_"
Slash == "/"

Lower == <<"a","b","c","d","e","f","g","h","i","j","k","l","m",
           "n","o","p","q","r","s","t","u","v","w","x","y","z">>
Upper == <<"A","B","C","D","E","F","G","H","I","J","K","L","M",
           "N","O","P","Q","R","S","T","U","V","W","X","Y","Z">>

\* strings.ToUpper / strings.ToLower on one character
ToUpper(c) ==
    IF \E i \in 1..Len(Lower) : Lower[i] = c
    THEN Upper[CHOOSE i \in 1..Len(Lower) : Lower[i] = c]
    ELSE c

ToLower(c) ==
    IF \E i \in 1..Len(Upper) : Upper[i] = c
    THEN Lower[CHOOSE i \in 1..Len(Upper) : Upper[i] = c]
    ELSE c

\* position of the first occurrence of character c in s, 0 when absent
IndexOf(s, c) ==
    IF \E i \in 1..Len(s) : s[i] = c
    THEN CHOOSE i \in 1..Len(s) : s[i] = c /\ \A j \in 1..(i-1) : s[j] # c
    ELSE 0

\* position of the last occurrence of character c in s, 0 when absent
LastIndexOf(s, c) ==
    IF \E i \in 1..Len(s) : s[i] = c
    THEN CHOOSE i \in 1..Len(s) : s[i] = c /\ \A j \in (i+1)..Len(s) : s[j] # c
    ELSE 0

\* strings.SplitN(s, sep, n) for n > 0: at most n parts, the last one the
\* unsplit remainder
RECURSIVE SplitN(_, _, _)
SplitN(s, sep, n) ==
    LET i == IndexOf(s, sep) IN
    IF n = 1 \/ i = 0
    THEN <<s>>
    ELSE <<SubSeq(s, 1, i-1)>> \o SplitN(SubSeq(s, i+1, Len(s)), sep, n-1)

\* strings.Split(s, sep)
Split(s, sep) == SplitN(s, sep, Len(s) + 1)

\* strings.Join(parts, sep)
RECURSIVE Join(_, _)
Join(parts, sep) ==
    IF Len(parts) = 0 THEN <<>>
    ELSE IF Len(parts) = 1 THEN parts[1]
    ELSE parts[1] \o sep \o Join(Tail(parts), sep)

\* strings.TrimSuffix(s, suffix)
TrimSuffix(s, suffix) ==
    IF Len(suffix) <= Len(s)
       /\ SubSeq(s, Len(s) - Len(suffix) + 1, Len(s)) = suffix
    THEN SubSeq(s, 1, Len(s) - Len(suffix))
    ELSE s

\* path.Base on a slash-separated path without trailing slashes
PathBase(s) ==
    IF Len(s) = 0 THEN <<Dot>>
    ELSE SubSeq(s, LastIndexOf(s, Slash) + 1, Len(s))

\* path.Ext: the suffix beginning at the final dot of the final element
PathExt(s) ==
    LET b == PathBase(s)
        i == LastIndexOf(b, Dot)
    IN  IF i = 0 THEN <<>> ELSE SubSeq(b, i, Len(b))

\* path.Join: the non-empty elements joined by a slash
PathJoin(elems) == Join(SelectSeq(elems, LAMBDA e : Len(e) > 0), <<Slash>>)

\* the literals of the code
number == <<"n","u","m","b","e","r">>
string == <<"s","t","r","i","n","g">>
boolean == <<"b","o","o","l","e","a","n">>
Date == <<"D","a","t","e">>
Brackets == <<"[","]">>
JSONSuffix == <<"J","S","O","N">>
TsExt == <<Dot,"t","s">>
Timestamp == <<Dot,"g","o","o","g","l","e",Dot,"p","r","o","t","o","b","u","f",
               Dot,"T","i","m","e","s","t","a","m","p">>

\* ------------------------------------------------------ generator.go helpers
\* sameFile with the comparison inverted
sameFile_inverted(a, b) == a.name # b.name

sameFile(a, b) == a.name = b.name

fullTypeName(fd, typeName) == <<Dot>> \o fd.package \o <<Dot>> \o typeName

removePkg(s) ==
    LET p == SplitN(s, Dot, 3)
        c == Split(p[Len(p)], Dot)
    IN  Join(c, <<Underscore>>)

upperCaseFirst(s) == <<ToUpper(s[1])>> \o Tail(s)

camelCase(s) ==
    LET parts == Split(s, Underscore)
        conv(i) == IF i = 1 THEN parts[i]
                   ELSE <<ToUpper(parts[i][1])>> \o Tail(parts[i])
    IN  Join([i \in 1..Len(parts) |-> conv(i)], <<>>)

tsImportName(name) ==
    LET base == PathBase(name)
    IN  SubSeq(base, 1, Len(base) - Len(PathExt(base)))

importName(fp) == tsImportName(fp.package)

tsImportPath(fd) == PathJoin(Split(fd.package, Dot))

\* strings.Repeat(s, n)
RECURSIVE Repeat(_, _)
Repeat(s, n) == IF n = 0 THEN <<>> ELSE s \o Repeat(s, n - 1)

relativeImportBase(fd) ==
    Repeat(<<Dot, Dot, Slash>>, Len(Split(tsImportPath(fd), Slash)))

tsFileName(fd) ==
    LET filename == TrimSuffix(PathBase(fd.name), PathExt(fd.name)) \o TsExt
    IN  PathJoin(<<tsImportPath(fd), filename>>)

isRepeated(field) == field.label = "LABEL_REPEATED"

WireTypes ==
    {"TYPE_DOUBLE", "TYPE_FLOAT", "TYPE_INT64", "TYPE_UINT64", "TYPE_INT32",
     "TYPE_FIXED64", "TYPE_FIXED32", "TYPE_BOOL", "TYPE_STRING", "TYPE_GROUP",
     "TYPE_MESSAGE", "TYPE_BYTES", "TYPE_UINT32", "TYPE_ENUM", "TYPE_SFIXED32",
     "TYPE_SFIXED64", "TYPE_SINT32", "TYPE_SINT64"}

singularFieldType(m, f) ==
    CASE f.type \in {"TYPE_DOUBLE", "TYPE_FIXED32", "TYPE_FIXED64", "TYPE_INT32",
                     "TYPE_INT64", "TYPE_UINT32", "TYPE_UINT64"} -> number
      [] f.type = "TYPE_ENUM" -> removePkg(f.typeName)
      [] f.type = "TYPE_STRING" -> string
      [] f.type = "TYPE_BOOL" -> boolean
      [] f.type = "TYPE_MESSAGE" ->
            IF f.typeName = Timestamp THEN Date ELSE removePkg(f.typeName)
      [] OTHER -> string

\* fieldType without the degradation of Date to its wire string
fieldType_keepsDate(f) ==
    IF f.IsRepeated THEN f.Type \o Brackets ELSE f.Type

fieldType(f) ==
    LET t == IF f.Type = Date THEN string ELSE f.Type
    IN  IF f.IsRepeated THEN t \o Brackets ELSE t

\* ------------------------------------------------- template file helpers
typeToInterface(typeName) == <<"I">> \o typeName

typeToJSONInterface(typeName) == <<"I">> \o typeName \o JSONSuffix

\* objectToField: the expression fromJSON uses to rebuild a field from the
\* JSON object m, as the form of the emitted text, the key it indexes m by
\* and the function it applies
objectToField(fv) ==
    LET t == IF fv.Type = Date THEN string ELSE fv.Type IN
    IF fv.IsRepeated
    THEN IF t \in {string, number, boolean}
         THEN [form |-> "mapScalar", key |-> fv.Name, fn |-> upperCaseFirst(t)]
         ELSE [form |-> "mapFromJSON", key |-> fv.Name, fn |-> t]
    ELSE IF t \in {string, number, boolean}
         THEN [form |-> "index", key |-> fv.Name, fn |-> <<>>]
         ELSE [form |-> "fromJSON", key |-> fv.Name, fn |-> t]

methodName(method) == <<ToLower(method[1])>> \o Tail(method)

\* ------------------------------------------------ the dependency resolver
\* The resolver and AddImport are used by generate but their file is not
\* part of the sources at hand; they follow the registry of the design
\* document: a flat mapping from fully-qualified name to the owning file.
Hdr(fd) == [name |-> fd.name, package |-> fd.package]

NilFile == [name |-> <<>>, package |-> <<>>]

ResolverSet(d, fd, messageName) ==
    LET k == fullTypeName(fd, messageName) IN
    {e \in d : e.key # k} \cup {[key |-> k, fd |-> Hdr(fd)]}

Resolve(d, typeName) ==
    IF \E e \in d : e.key = typeName
    THEN [ok |-> TRUE, fp |-> (CHOOSE e \in d : e.key = typeName).fd]
    ELSE [ok |-> FALSE, fp |-> NilFile]

TypeName(d, fd, typeName) == removePkg(typeName)

\* pfile.AddImport(fp, typeName): Imports is a map keyed by the output path
\* of the owning file, so a second import of the same file replaces the
\* first; the importValues carry the alias and the path of importTemplate
AddImport(imports, fp, typeName) ==
    LET path == tsFileName(fp) IN
    {e \in imports : e.Path # path}
        \cup {[Name |-> importName(fp), Path |-> path]}

\* ------------------------------------------------ values built by generate
\* generate, lines 110 and 118-125
NewFieldValues(d, file, message, field) ==
    [Name       |-> field.name,
     Field      |-> camelCase(field.name),
     Type       |-> TypeName(d, file, singularFieldType(message, field)),
     IsEnum     |-> field.type = "TYPE_ENUM",
     IsRepeated |-> isRepeated(field)]

\* generate, lines 143-144 and 163-167
NewMethodValues(d, file, method) ==
    [Name       |-> method.name,
     InputType  |-> TypeName(d, file, removePkg(method.inputType)),
     OutputType |-> TypeName(d, file, removePkg(method.outputType))]

\* generate, lines 50-53 and 55-60
NewEnumValues(name, enum) ==
    [Name   |-> name,
     Values |-> [i \in DOMAIN enum.values |->
                    [Name |-> enum.values[i].name, Value |-> enum.values[i].number]]]

\* the message values with the nested messages carried into NestedTypes
NewMessageValues_keepsNested(message) ==
    [Name          |-> message.name,
     Interface     |-> typeToInterface(message.name),
     JSONInterface |-> typeToJSONInterface(message.name),
     Fields        |-> <<>>,
     NestedTypes   |-> [i \in DOMAIN message.nested |-> message.nested[i].name],
     NestedEnums   |-> <<>>]

\* generate, lines 67-83
NewMessageValues(message) ==
    [Name          |-> message.name,
     Interface     |-> typeToInterface(message.name),
     JSONInterface |-> typeToJSONInterface(message.name),
     Fields        |-> <<>>,
     NestedTypes   |-> <<>>,
     NestedEnums   |-> <<>>]

\* generate, lines 135-140
NewServiceValues(file, service) ==
    [Package   |-> file.package,
     Name      |-> service.name,
     Interface |-> typeToInterface(service.name),
     Methods   |-> <<>>]

\* messageTemplate: a member of the public interface and of the JSON-shape
\* interface
PublicMember(f) == [name |-> f.Field, type |-> fieldType(f)]

JSONMember(f) == [name |-> f.Name, type |-> fieldType(f)]

\* ----------------------------------------------- the field type mapper
None == [kind |-> "none"]

\* generate is not running
GenIdle ==
    /\ req = <<>>
    /\ pc = "idle"
    /\ fi = 0 /\ mi = 0 /\ fdi = 0 /\ si = 0 /\ mti = 0
    /\ curMsg = None /\ curSvc = None
    /\ resolver = {}
    /\ pfiles = <<>>
    /\ outputFiles = {}
    /\ todo = {}
    /\ res = <<>>
    /\ logs = <<>>

Segs == {"a", "b"}

RECURSIVE PkgsOfLen(_)
PkgsOfLen(n) ==
    IF n = 1 THEN {<<s>> : s \in Segs}
    ELSE {p \o <<Dot, s>> : p \in PkgsOfLen(n-1), s \in Segs}

Pkgs == UNION {PkgsOfLen(n) : n \in 1..MaxPkgSegs}

Locals == {<<"F">>, <<"S","t">>}

\* a reference to a declared type: its package and local name
Refs == [pkg : Pkgs, local : Locals]

QName(r) == <<Dot>> \o r.pkg \o <<Dot>> \o r.local

TimestampRef == [pkg |-> <<"g","o","o","g","l","e",Dot,"p","r","o","t","o","b","u","f">>,
                 local |-> <<"T","i","m","e","s","t","a","m","p">>]

Labels == {"LABEL_OPTIONAL", "LABEL_REPEATED"}

FieldName == <<"a","_","b">>

FieldInputs ==
    {[kind |-> "field", name |-> FieldName, type |-> t, typeName |-> <<>>,
      label |-> l, ref |-> None]
        : t \in WireTypes \ {"TYPE_ENUM", "TYPE_MESSAGE"}, l \in Labels}
    \cup
    {[kind |-> "field", name |-> FieldName, type |-> t, typeName |-> QName(r),
      label |-> l, ref |-> r]
        : t \in {"TYPE_ENUM", "TYPE_MESSAGE"}, l \in Labels,
          r \in Refs \cup {TimestampRef}}

MethodInputs ==
    {[kind |-> "method", name |-> <<"G","e","t">>, inputType |-> QName(i),
      outputType |-> QName(o), inRef |-> i, outRef |-> o]
        : i \in Refs, o \in Refs}

ThisFile == [name |-> <<"x",Dot,"p">>, package |-> <<"a">>]

InitField ==
    /\ GenIdle
    /\ arg \in FieldInputs \cup MethodInputs
    /\ ret = None

MapField ==
    /\ arg.kind = "field"
    /\ ret = None
    /\ LET fv == NewFieldValues({}, ThisFile, [name |-> <<"M">>], arg) IN
       ret' = [kind |-> "field", fv |-> fv, public |-> PublicMember(fv),
               json |-> JSONMember(fv)]
    /\ UNCHANGED <<arg, genVars>>

MapMethod ==
    /\ arg.kind = "method"
    /\ ret = None
    /\ ret' = [kind |-> "method", mv |-> NewMethodValues({}, ThisFile, arg)]
    /\ UNCHANGED <<arg, genVars>>

NextField == MapField \/ MapMethod

SpecField == InitField /\ [][NextField]_vars

\* ---------------------------------------------------------------- C1
\* the singular output type of the table of section 4.1 for a scalar wire type
TableType(t) ==
    CASE t \in {"TYPE_DOUBLE", "TYPE_FLOAT", "TYPE_INT32", "TYPE_INT64",
                "TYPE_UINT32", "TYPE_UINT64", "TYPE_SINT32", "TYPE_SINT64",
                "TYPE_FIXED32", "TYPE_FIXED64", "TYPE_SFIXED32",
                "TYPE_SFIXED64"} -> number
      [] t = "TYPE_STRING" -> string
      [] t = "TYPE_BOOL" -> boolean
      [] OTHER -> string

\* C1: for every scalar wire type the mapped singular type is the one of the
\* table: number for double, float and every 32/64-bit integer type, string
\* for string, boolean for bool, and string for the types the table does not
\* know.
C1_MapperFollowsTable ==
    (ret.kind = "field" /\ arg.type \notin {"TYPE_ENUM", "TYPE_MESSAGE"})
        => ret.fv.Type = TableType(arg.type)

\* ---------------------------------------------------------------- C2
\* C2: an enum or message reference '.<package>.<LocalName>' (field type,
\* method input type, method output type) is typed by exactly its local name,
\* whatever the number of segments of the package.
C2_PackagePrefixStripped ==
    /\ (ret.kind = "field" /\ arg.type \in {"TYPE_ENUM", "TYPE_MESSAGE"}
            /\ arg.ref \in Refs)
         => ret.fv.Type = arg.ref.local
    /\ ret.kind = "method"
         => /\ ret.mv.InputType = arg.inRef.local
            /\ ret.mv.OutputType = arg.outRef.local

\* ---------------------------------------------------------------- C5
IsTimestampField ==
    /\ ret.kind = "field"
    /\ arg.type = "TYPE_MESSAGE"
    /\ arg.typeName = Timestamp

Arr(t) == IF isRepeated(arg) THEN t \o Brackets ELSE t

NamePool == << <<"F">>, <<"I","F">>, <<"F">> \o JSONSuffix, <<"G">> >>

DeclKinds == {"none", "enum", "message", "service"}

NamesOfKind(kindOf, k) ==
    LET idx == SelectSeq([i \in 1..Len(NamePool) |-> i], LAMBDA i : kindOf[i] = k)
    IN  [j \in 1..Len(idx) |-> [name |-> NamePool[idx[j]], values |-> <<>>]]

InitNames ==
    /\ GenIdle
    /\ \E kindOf \in [1..Len(NamePool) -> DeclKinds] :
          arg = [kind     |-> "decls",
                 name     |-> ThisFile.name,
                 package  |-> ThisFile.package,
                 enums    |-> NamesOfKind(kindOf, "enum"),
                 messages |-> NamesOfKind(kindOf, "message"),
                 services |-> NamesOfKind(kindOf, "service")]
    /\ ret = None

\* the identifiers the output file defines: enumTemplate, messageTemplate
\* and serviceTemplate, over the values generate builds
RECURSIVE Flatten(_)
Flatten(ss) == IF Len(ss) = 0 THEN <<>> ELSE ss[1] \o Flatten(Tail(ss))

OutputIdentifiers(file) ==
    Flatten([i \in 1..Len(file.enums) |->
                <<NewEnumValues(file.enums[i].name, file.enums[i]).Name>>])
    \o Flatten([i \in 1..Len(file.messages) |->
                LET v == NewMessageValues(file.messages[i])
                IN  <<v.Name, v.Interface, v.JSONInterface>>])
    \o Flatten([i \in 1..Len(file.services) |->
                LET v == NewServiceValues(file, file.services[i])
                IN  <<v.Name, v.Interface>>])

DeclareNames ==
    /\ arg.kind = "decls"
    /\ ret = None
    /\ ret' = [kind |-> "ids", ids |-> OutputIdentifiers(arg)]
    /\ UNCHANGED <<arg, genVars>>

NextNames == DeclareNames

SpecNames == InitNames /\ [][NextNames]_vars

\* ---------------------------------------------------------------- C8
\* C8: the identifiers derived from the declarations of one file (enum
\* names, message names N, 'I'+N, 'I'+N+'JSON', service names and their
\* interface names) are pairwise distinct whenever the declared local names
\* are distinct.
C8_IdentifiersDistinct ==
    ret.kind = "ids"
        => \A i, j \in DOMAIN ret.ids : i # j => ret.ids[i] # ret.ids[j]

\* --------------------------------------------- the generated message class
\* Values of the target language: a tag, a printed scalar, array items.
JsVal(tag, val, items) == [tag |-> tag, val |-> val, items |-> items]

Undefined == JsVal("undefined", "", <<>>)

JsArray(items) == JsVal("array", "", items)

TypeError == JsVal("TypeError", "", <<>>)

\* String(v), Number(v), Boolean(v) of the target language
Convert(fn, v) ==
    CASE fn = upperCaseFirst(string) -> JsVal("string", v.val, <<>>)
      [] fn = upperCaseFirst(number) -> JsVal("number", v.val, <<>>)
      [] fn = upperCaseFirst(boolean) -> JsVal("boolean", v.val, <<>>)

\* messageTemplate, lines 86-93: the constructor stores each member of the
\* public-interface object under the wire name of its field
Construct(fields, m) ==
    [n \in {fields[i].Name : i \in DOMAIN fields} |->
        m[(CHOOSE i \in DOMAIN fields : fields[i].Name = n)]]

\* messageTemplate, lines 112-114
ToJSON(json) == json

\* the value of an objectToField expression over the JSON object j; classes
\* are the identifiers that carry a static fromJSON (the message classes),
\* an enum carries none
EvalObjectToField(e, j, classes) ==
    LET x == j[e.key]
        items == IF x = Undefined THEN <<>> ELSE x.items
    IN  CASE e.form = "index" -> x
          [] e.form = "fromJSON" ->
                IF e.fn \in classes THEN x ELSE TypeError
          [] e.form = "mapScalar" ->
                JsArray([k \in DOMAIN items |-> Convert(e.fn, items[k])])
          [] e.form = "mapFromJSON" ->
                IF Len(items) = 0 THEN JsArray(<<>>)
                ELSE IF e.fn \in classes THEN JsArray(items)
                ELSE TypeError

\* messageTemplate, lines 103-110: the members fromJSON hands to the constructor
FromJSONMembers(fields, j, classes) ==
    [i \in DOMAIN fields |-> EvalObjectToField(objectToField(fields[i]), j, classes)]

RTTypes == {"TYPE_STRING", "TYPE_INT32", "TYPE_BOOL", "TYPE_FLOAT", "TYPE_ENUM"}

EnumRef == [pkg |-> <<"a">>, local |-> <<"S","t">>]

RTMessage == [name |-> <<"M">>]

RTField(t, l, i) ==
    [name |-> <<"f", Underscore, Lower[i]>>, type |-> t,
     typeName |-> IF t = "TYPE_ENUM" THEN QName(EnumRef) ELSE <<>>,
     label |-> l]

\* the values a member of the public interface may hold, by its type
ScalarsOf(fv) ==
    CASE fv.Type = string -> {JsVal("string", "x", <<>>), JsVal("string", "", <<>>)}
      [] fv.Type = boolean -> {JsVal("boolean", "true", <<>>), JsVal("boolean", "false", <<>>)}
      [] OTHER -> {JsVal("number", "0", <<>>), JsVal("number", "1", <<>>)}

MemberValues(fv) ==
    IF fv.IsRepeated
    THEN {Undefined, JsArray(<<>>)} \cup {JsArray(<<v>>) : v \in ScalarsOf(fv)}
    ELSE {Undefined} \cup ScalarsOf(fv)

InitRoundTrip ==
    /\ GenIdle
    /\ \E n \in 1..MaxMsgFields :
       \E ts \in [1..n -> RTTypes \X Labels] :
          LET fields == [i \in 1..n |->
                            NewFieldValues({}, ThisFile, RTMessage,
                                           RTField(ts[i][1], ts[i][2], i))]
          IN  \E m \in [1..n -> UNION {MemberValues(fields[i]) : i \in 1..n}] :
                 /\ \A i \in 1..n : m[i] \in MemberValues(fields[i])
                 /\ arg = [kind |-> "class", fields |-> fields, m |-> m]
    /\ ret = None

\* new M(m)
NewInstance ==
    /\ arg.kind = "class"
    /\ ret = None
    /\ ret' = [kind |-> "instance", json |-> Construct(arg.fields, arg.m)]
    /\ UNCHANGED <<arg, genVars>>

\* instance.toJSON()
Serialize ==
    /\ ret.kind = "instance"
    /\ ret' = [kind |-> "wire", json |-> ToJSON(ret.json)]
    /\ UNCHANGED <<arg, genVars>>

\* M.fromJSON(wire)
Deserialize ==
    /\ ret.kind = "wire"
    /\ LET ms == FromJSONMembers(arg.fields, ret.json, {RTMessage.name}) IN
       ret' = IF \E i \in DOMAIN ms : ms[i] = TypeError
              THEN [kind |-> "threw", json |-> ret.json]
              ELSE [kind |-> "rebuilt", json |-> Construct(arg.fields, ms)]
    /\ UNCHANGED <<arg, genVars>>

NextRoundTrip == NewInstance \/ Serialize \/ Deserialize

SpecRoundTrip == InitRoundTrip /\ [][NextRoundTrip]_vars

\* ---------------------------------------------------------------- C7
\* C7: for a message of scalar and enum fields, the class built from a
\* public-interface object, serialised with toJSON and rebuilt with fromJSON
\* is rebuilt (nothing is thrown) and equals the original field by field.
C7_RoundTripEqual ==
    ret.kind \in {"rebuilt", "threw"}
        => /\ ret.kind = "rebuilt"
           /\ \A i \in DOMAIN arg.fields :
                 ret.json[arg.fields[i].Name] = arg.m[i]

\* ======================================================== generate: inputs
\* Three files a request may hold: two of package a and one, in a
\* directory, of the two-segment package b.c. Each declares one message.
SlotNames == << <<"x",Dot,"p">>, <<"y",Dot,"p">>, <<"d",Slash,"z",Dot,"p">> >>
SlotPkgs == << <<"a">>, <<"a">>, <<"b",Dot,"c">> >>
SlotMsgs == << <<"F">>, <<"G">>, <<"H">> >>

Slots == DOMAIN SlotNames

SlotHdr(k) == [name |-> SlotNames[k], package |-> SlotPkgs[k]]

SlotType(k) == fullTypeName(SlotHdr(k), SlotMsgs[k])

\* field number i of a message: a string (c = 0) or a reference to the
\* message of slot c, whether or not that file is part of the request
FieldOf(c, i) ==
    [name     |-> <<"f", Underscore, Lower[i]>>,
     type     |-> IF c = 0 THEN "TYPE_STRING" ELSE "TYPE_MESSAGE",
     typeName |-> IF c = 0 THEN <<>> ELSE SlotType(c),
     label    |-> IF i % 2 = 0 THEN "LABEL_REPEATED" ELSE "LABEL_OPTIONAL"]

EnumOf(name) == [name |-> name, values |-> <<[name |-> <<"A">>, number |-> 0]>>]

MessageOf(name, fields, nested, enums) ==
    [name |-> name, fields |-> fields, nested |-> nested, enums |-> enums]

\* a file whose message refers to itself
PlainFile(k) ==
    [name     |-> SlotNames[k],
     package  |-> SlotPkgs[k],
     enums    |-> <<>>,
     messages |-> <<MessageOf(SlotMsgs[k], <<FieldOf(k, 1)>>, <<>>, <<>>)>>,
     services |-> <<>>]

Tails ==
    {[t |-> "none", out |-> 0], [t |-> "nested", out |-> 0]}
    \cup {[t |-> "svc", out |-> j] : j \in Slots}

\* the file under study: its message has the fields cs; it has moreover
\* nothing, or an enum, two nested messages, a nested enum and a sibling
\* message, or a service of one method
RichFile(k, cs, tail) ==
    LET fields == [i \in DOMAIN cs |-> FieldOf(cs[i], i)]
        inner  == <<MessageOf(<<"N">>, <<FieldOf(0, 1)>>, <<>>, <<>>),
                    MessageOf(<<"P">>, <<>>, <<>>, <<>>)>>
    IN
    [name     |-> SlotNames[k],
     package  |-> SlotPkgs[k],
     enums    |-> IF tail.t = "nested" THEN <<EnumOf(<<"E">>)>> ELSE <<>>,
     messages |->
        IF tail.t = "nested"
        THEN <<MessageOf(SlotMsgs[k], fields, inner, <<EnumOf(<<"K">>)>>),
               MessageOf(<<"S">> \o SlotMsgs[k], <<FieldOf(0, 1)>>, <<>>, <<>>)>>
        ELSE <<MessageOf(SlotMsgs[k], fields, <<>>, <<>>)>>,
     services |->
        IF tail.t = "svc"
        THEN <<[name    |-> <<"S","v">> \o SlotMsgs[k],
                methods |-> <<[name       |-> <<"G","e","t">>,
                               inputType  |-> SlotType(k),
                               outputType |-> SlotType(tail.out)]>>]>>
        ELSE <<>>]

FieldChoices == {0} \cup Slots

FieldSeqs == UNION {[1..n -> FieldChoices] : n \in 0..MaxFields}

\* ======================================================= generate: the pass
TwirpFile == [Name |-> <<"t","w","i","r","p">> \o TsExt, Content |-> [kind |-> "twirp"]]

IndexName == <<"i","n","d","e","x">> \o TsExt

NestedWarning ==
    [msg |-> "warning: nested messages are not supported yet", name |-> <<>>]

Wrote(name) == [msg |-> "wrote: %v", name |-> name]

Init ==
    /\ arg = None
    /\ ret = None
    /\ \E n \in 1..MaxFiles :
       \E order \in [1..n -> Slots] :
       \E rich \in 1..n, cs \in FieldSeqs, tail \in Tails :
          /\ \A i, j \in 1..n : i # j => order[i] # order[j]
          /\ req = [i \in 1..n |-> IF i = rich THEN RichFile(order[i], cs, tail)
                                   ELSE PlainFile(order[i])]
    /\ pc = "file"
    /\ fi = 1 /\ mi = 0 /\ fdi = 0 /\ si = 0 /\ mti = 0
    /\ curMsg = None /\ curSvc = None
    /\ resolver = {}
    /\ pfiles = <<>>
    /\ outputFiles = {}
    /\ todo = {}
    /\ res = <<TwirpFile>>
    /\ logs = <<>>

file == req[fi]

\* outputFiles[key] = append(outputFiles[key], pfile)
MapAppend(m, key, x) ==
    IF \E e \in m : e.key = key
    THEN {IF e.key = key THEN [e EXCEPT !.files = Append(@, x)] ELSE e : e \in m}
    ELSE m \cup {[key |-> key, files |-> <<x>>]}

\* resolver.Set(fd, name) for each name of a sequence, in order
RECURSIVE SetAll(_, _, _)
SetAll(d, fd, names) ==
    IF Len(names) = 0 THEN d
    ELSE SetAll(ResolverSet(d, fd, names[1]), fd, Tail(names))

\* lines 35-44: the protoFile of the next file
StartFile ==
    /\ pc = "file"
    /\ fi <= Len(req)
    /\ pfiles' = Append(pfiles, [Output             |-> tsFileName(file),
                                 RelativeImportBase |-> relativeImportBase(file),
                                 Imports            |-> {},
                                 Messages           |-> <<>>,
                                 Services           |-> <<>>,
                                 Enums              |-> <<>>])
    /\ outputFiles' = MapAppend(outputFiles, tsImportPath(file), Len(pfiles) + 1)
    /\ pc' = "enums"
    /\ UNCHANGED <<arg, ret, req, fi, mi, fdi, si, mti, curMsg, curSvc,
                   resolver, todo, res, logs>>

\* lines 46-63: the top-level enums of the file
AddEnums ==
    /\ pc = "enums"
    /\ resolver' = SetAll(resolver, file,
                          [i \in DOMAIN file.enums |-> file.enums[i].name])
    /\ pfiles' = [pfiles EXCEPT ![fi].Enums =
                    [i \in DOMAIN file.enums |->
                        NewEnumValues(file.enums[i].name, file.enums[i])]]
    /\ pc' = "message"
    /\ mi' = 1
    /\ UNCHANGED <<arg, ret, req, fi, fdi, si, mti, curMsg, curSvc,
                   outputFiles, todo, res, logs>>

\* lines 66-106: a message is declared, its values are created, a nested
\* message is warned about and the nested enums are added
BeginMessage ==
    /\ pc = "message"
    /\ mi <= Len(file.messages)
    /\ LET message == file.messages[mi]
           nv == NewMessageValues(message)
       IN  /\ resolver' = SetAll(resolver, file,
                                 <<nv.Name, nv.Interface, nv.JSONInterface>>)
           /\ logs' = IF Len(message.nested) > 0
                      THEN Append(logs, NestedWarning) ELSE logs
           /\ curMsg' = [nv EXCEPT !.NestedEnums =
                           [i \in DOMAIN message.enums |->
                               NewEnumValues(message.name \o <<Underscore>>
                                                \o message.enums[i].name,
                                             message.enums[i])]]
    /\ pc' = "field"
    /\ fdi' = 1
    /\ UNCHANGED <<arg, ret, req, fi, mi, si, mti, curSvc, pfiles,
                   outputFiles, todo, res>>

\* lines 109-126: one field of the message
AddField ==
    /\ pc = "field"
    /\ fdi <= Len(file.messages[mi].fields)
    /\ LET message == file.messages[mi]
           field == message.fields[fdi]
           fv == NewFieldValues(resolver, file, message, field)
           r == Resolve(resolver, field.typeName)
       IN  /\ pfiles' = IF r.ok /\ ~sameFile(r.fp, file)
                        THEN [pfiles EXCEPT ![fi].Imports =
                                 AddImport(@, r.fp, fv.Type)]
                        ELSE pfiles
           /\ curMsg' = [curMsg EXCEPT !.Fields = Append(@, fv)]
    /\ fdi' = fdi + 1
    /\ UNCHANGED <<arg, ret, req, pc, fi, mi, si, mti, curSvc, resolver,
                   outputFiles, todo, res, logs>>

\* line 128: the message joins the file
EndMessage ==
    /\ pc = "field"
    /\ fdi > Len(file.messages[mi].fields)
    /\ pfiles' = [pfiles EXCEPT ![fi].Messages = Append(@, curMsg)]
    /\ curMsg' = None
    /\ mi' = mi + 1
    /\ pc' = "message"
    /\ UNCHANGED <<arg, ret, req, fi, fdi, si, mti, curSvc, resolver,
                   outputFiles, todo, res, logs>>

\* lines 66 and 132: the messages are done, the services follow
EndMessages ==
    /\ pc = "message"
    /\ mi > Len(file.messages)
    /\ pc' = "service"
    /\ si' = 1
    /\ UNCHANGED <<arg, ret, req, fi, mi, fdi, mti, curMsg, curSvc, resolver,
                   pfiles, outputFiles, todo, res, logs>>

\* lines 132-140: a service is declared and its values are created
BeginService ==
    /\ pc = "service"
    /\ si <= Len(file.services)
    /\ resolver' = ResolverSet(resolver, file, file.services[si].name)
    /\ curSvc' = NewServiceValues(file, file.services[si])
    /\ pc' = "method"
    /\ mti' = 1
    /\ UNCHANGED <<arg, ret, req, fi, mi, fdi, si, curMsg, pfiles,
                   outputFiles, todo, res, logs>>

\* lines 142-168: one method of the service
AddMethod ==
    /\ pc = "method"
    /\ mti <= Len(file.services[si].methods)
    /\ LET method == file.services[si].methods[mti]
           mv == NewMethodValues(resolver, file, method)
           rin == Resolve(resolver, method.inputType)
           rout == Resolve(resolver, method.outputType)
           imp0 == pfiles[fi].Imports
           imp1 == IF rin.ok /\ ~sameFile(rin.fp, file)
                   THEN AddImport(imp0, rin.fp, mv.InputType) ELSE imp0
           imp2 == IF rout.ok /\ ~sameFile(rout.fp, file)
                   THEN AddImport(imp1, rout.fp, mv.OutputType) ELSE imp1
       IN  /\ pfiles' = [pfiles EXCEPT ![fi].Imports = imp2]
           /\ curSvc' = [curSvc EXCEPT !.Methods = Append(@, mv)]
    /\ mti' = mti + 1
    /\ UNCHANGED <<arg, ret, req, pc, fi, mi, fdi, si, curMsg, resolver,
                   outputFiles, todo, res, logs>>

\* line 170: the service joins the file
EndService ==
    /\ pc = "method"
    /\ mti > Len(file.services[si].methods)
    /\ pfiles' = [pfiles EXCEPT ![fi].Services = Append(@, curSvc)]
    /\ curSvc' = None
    /\ si' = si + 1
    /\ pc' = "service"
    /\ UNCHANGED <<arg, ret, req, fi, mi, fdi, mti, curMsg, resolver,
                   outputFiles, todo, res, logs>>

\* lines 171-174: the file is done; after the last one the range over the
\* map outputFiles begins
EndFile ==
    /\ pc = "service"
    /\ si > Len(file.services)
    /\ fi' = fi + 1
    /\ IF fi = Len(req)
       THEN pc' = "emit" /\ todo' = {e.key : e \in outputFiles}
       ELSE pc' = "file" /\ todo' = todo
    /\ UNCHANGED <<arg, ret, req, mi, fdi, si, mti, curMsg, curSvc, resolver,
                   pfiles, outputFiles, res, logs>>

\* pf.Compile(): the text is a function of the protoFile alone
Compile(pf) == [kind |-> "file", of |-> pf]

\* ev.Compile()
CompileExports(exports) == [kind |-> "index", of |-> exports]

\* lines 174-203: one iteration of the range over outputFiles. Go visits
\* the keys of a map in an order it does not specify: any key not yet
\* visited may come next. The templates are fixed and parse, so the
\* log.Fatal branches of lines 182-184 and 194-196 are not taken.
EmitPackage ==
    /\ pc = "emit"
    /\ \E e \in outputFiles :
          /\ e.key \in todo
          /\ LET pff == e.files
                 exports == [i \in DOMAIN pff |->
                                TrimSuffix(PathBase(pfiles[pff[i]].Output), TsExt)]
                 outs == [i \in DOMAIN pff |->
                             [Name    |-> pfiles[pff[i]].Output,
                              Content |-> Compile(pfiles[pff[i]])]]
             IN  res' = res \o outs
                            \o <<[Name    |-> PathJoin(<<e.key, IndexName>>),
                                  Content |-> CompileExports(exports)]>>
          /\ todo' = todo \ {e.key}
    /\ UNCHANGED <<arg, ret, req, pc, fi, mi, fdi, si, mti, curMsg, curSvc,
                   resolver, pfiles, outputFiles, logs>>

\* lines 205-209: the names are logged and the response is returned
Finish ==
    /\ pc = "emit"
    /\ todo = {}
    /\ logs' = logs \o [i \in DOMAIN res |-> Wrote(res[i].Name)]
    /\ pc' = "done"
    /\ UNCHANGED <<arg, ret, req, fi, mi, fdi, si, mti, curMsg, curSvc,
                   resolver, pfiles, outputFiles, todo, res>>

Next ==
    \/ StartFile
    \/ AddEnums
    \/ BeginMessage
    \/ AddField
    \/ EndMessage
    \/ EndMessages
    \/ BeginService
    \/ AddMethod
    \/ EndService
    \/ EndFile
    \/ EmitPackage
    \/ Finish

Spec == Init /\ [][Next]_vars

\* ============================================================== the claims
Range(f) == {f[i] : i \in DOMAIN f}

\* the fully-qualified names of the messages a file declares
MessageTypes(f) == {fullTypeName(f, m.name) : m \in Range(f.messages)}

\* the type names the fields and the methods of a file refer to
FieldRefs(f) ==
    {fd.typeName : fd \in UNION {Range(m.fields) : m \in Range(f.messages)}}

MethodRefs(f) ==
    UNION {{mt.inputType, mt.outputType}
              : mt \in UNION {Range(sv.methods) : sv \in Range(f.services)}}

\* ---------------------------------------------------------------- C3
\* C3: for two distinct files A and B of the request, in whichever order,
\* if a field of a message of B refers to a message declared in A, then
\* once generate is done B's Imports holds exactly one entry for A.
C3_OneImportPerReferencedFile ==
    pc = "done" =>
        \A a, b \in DOMAIN req :
            (a # b /\ FieldRefs(req[b]) \cap MessageTypes(req[a]) # {})
                => Cardinality({e \in pfiles[b].Imports :
                                   e.Path = tsFileName(req[a])}) = 1

\* ---------------------------------------------------------------- C4
\* C4: at every point of the pass no file's Imports holds an entry for the
\* file itself.
C4_NoSelfImport ==
    \A i \in DOMAIN pfiles :
        \A e \in pfiles[i].Imports : e.Path # tsFileName(req[i])

\* the pass is over for a request one file of which has a message with a
\* field of its own type and a method over a message of the same file
C4_Witness ==
    /\ pc = "done"
    /\ \E i \in DOMAIN req :
          /\ FieldRefs(req[i]) \cap MessageTypes(req[i]) # {}
          /\ MethodRefs(req[i]) \cap MessageTypes(req[i]) # {}

\* ---------------------------------------------------------------- C6
\* every fully-qualified name generate registers for a file
DeclaredBy(f) ==
    {fullTypeName(f, n) :
        n \in {e.name : e \in Range(f.enums)}
              \cup UNION {{m.name, typeToInterface(m.name),
                           typeToJSONInterface(m.name)} : m \in Range(f.messages)}
              \cup {sv.name : sv \in Range(f.services)}}

Declared == UNION {DeclaredBy(req[i]) : i \in DOMAIN req}

\* a reference to a type that no file of the request declares
Undeclared(typeName) == typeName # <<>> /\ typeName \notin Declared

\* the local name of the message a slot's type name stands for
LocalName(typeName) == SlotMsgs[CHOOSE k \in Slots : SlotType(k) = typeName]

\* every declaration of every file has its values in the model
AllModelled ==
    /\ Len(pfiles) = Len(req)
    /\ \A i \in DOMAIN req :
          /\ Len(pfiles[i].Enums) = Len(req[i].enums)
          /\ Len(pfiles[i].Messages) = Len(req[i].messages)
          /\ \A j \in DOMAIN req[i].messages :
                /\ pfiles[i].Messages[j].Name = req[i].messages[j].name
                /\ Len(pfiles[i].Messages[j].Fields)
                      = Len(req[i].messages[j].fields)
          /\ Len(pfiles[i].Services) = Len(req[i].services)
          /\ \A j \in DOMAIN req[i].services :
                Len(pfiles[i].Services[j].Methods)
                   = Len(req[i].services[j].methods)

\* no import entry stands for anything but a file of the request that
\* declares a type the importing file refers to
ImportsOnlyResolved ==
    \A i \in DOMAIN pfiles :
        \A e \in pfiles[i].Imports :
            \E g \in DOMAIN req :
                /\ e.Path = tsFileName(req[g])
                /\ (FieldRefs(req[i]) \cup MethodRefs(req[i]))
                      \cap DeclaredBy(req[g]) # {}

\* the fields and methods over undeclared types carry the local name
UndeclaredGetLocalName ==
    \A i \in DOMAIN req :
        /\ \A j \in DOMAIN req[i].messages :
           \A k \in DOMAIN req[i].messages[j].fields :
              LET fd == req[i].messages[j].fields[k] IN
              Undeclared(fd.typeName)
                 => pfiles[i].Messages[j].Fields[k].Type = LocalName(fd.typeName)
        /\ \A j \in DOMAIN req[i].services :
           \A k \in DOMAIN req[i].services[j].methods :
              LET mt == req[i].services[j].methods[k]
                  mv == pfiles[i].Services[j].Methods[k]
              IN  /\ Undeclared(mt.inputType)
                        => mv.InputType = LocalName(mt.inputType)
                  /\ Undeclared(mt.outputType)
                        => mv.OutputType = LocalName(mt.outputType)

\* C6: a field or method type that no file of the request declares does not
\* stop generate: no import is recorded for it, the field or method gets the
\* local name as its type, and all fields, messages and services of all
\* files are modelled.
C6_UnresolvedDegrades ==
    /\ ImportsOnlyResolved
    /\ pc = "done" => (AllModelled /\ UndeclaredGetLocalName)

\* the part of C6 that does not rest on the stripping of the package: with
\* undeclared references in the request the pass records imports for
\* resolved references only and models every declaration
C6_NoImportAndAllModelled ==
    /\ ImportsOnlyResolved
    /\ pc = "done" => AllModelled

\* ---------------------------------------------------------------- C9
FileEntries == SelectSeq(res, LAMBDA r : r.Content.kind = "file")

\* C9: the response lists the per-file outputs in the order of the files of
\* the request, whatever order the map of output paths is visited in.
C9_OutputsFollowInputOrder ==
    pc = "done" =>
        [i \in DOMAIN FileEntries |-> FileEntries[i].Name]
            = [i \in DOMAIN req |-> tsFileName(req[i])]

\* --------------------------------------------------------------- C10
Count(seq, P(_)) == Cardinality({i \in DOMAIN seq : P(seq[i])})

HasNested(m) == Len(m.nested) > 0

\* the messages for which lines 66-106 have run
Begun(i) ==
    IF i < fi \/ pc \in {"service", "method", "emit", "done"}
    THEN req[i].messages
    ELSE IF pc \in {"file", "enums"} THEN <<>>
    ELSE SubSeq(req[i].messages, 1, IF pc = "field" THEN mi ELSE mi - 1)

RECURSIVE SumNested(_)
SumNested(i) ==
    IF i = 0 THEN 0 ELSE Count(Begun(i), HasNested) + SumNested(i - 1)

\* C10: a message with nested messages costs one warning (one for the
\* message, however many messages are nested in it) and nothing else:
\* no nested message enters the model (NestedTypes stays empty, the file's
\* Messages are its top-level messages), and the nested enums, the fields,
\* the sibling messages and the services are modelled all the same.
C10_NestedSkipped ==
    /\ Count(logs, LAMBDA l : l = NestedWarning)
          = SumNested(IF fi > Len(req) THEN Len(req) ELSE fi)
    /\ curMsg # None => curMsg.NestedTypes = <<>>
    /\ \A i \in DOMAIN pfiles :
       \A j \in DOMAIN pfiles[i].Messages :
          /\ pfiles[i].Messages[j].NestedTypes = <<>>
          /\ pfiles[i].Messages[j].Name = req[i].messages[j].name
    /\ pc = "done" =>
          /\ AllModelled
          /\ \A i \in DOMAIN req :
             \A j \in DOMAIN req[i].messages :
                LET m == req[i].messages[j] IN
                [k \in DOMAIN m.enums |-> pfiles[i].Messages[j].NestedEnums[k].Name]
                   = [k \in DOMAIN m.enums |->
                         m.name \o <<Underscore>> \o m.enums[k].name]

\* the pass is over for a request with a message that holds nested
\* messages, a nested enum and a field, and is followed by a sibling
C10_Witness ==
    /\ pc = "done"
    /\ \E i \in DOMAIN req :
       \E j \in DOMAIN req[i].messages :
          /\ HasNested(req[i].messages[j])
          /\ Len(req[i].messages[j].enums) > 0
          /\ Len(req[i].messages[j].fields) > 0
          /\ j < Len(req[i].messages)

====
